---------------------------- MODULE Spec2Model ----------------------------
(***************************************************************************)
(* Airport management REST backend (src/app.py): the database tables as    *)
(* state, one action per request handler.  A handler runs against its own  *)
(* session and commits once, so a handler served alone is one atomic step; *)
(* a handler that returns before db.session.commit() leaves the tables as  *)
(* they were (the session is rolled back when the request ends).  For      *)
(* bookings served at the same time, create_booking is also given as two   *)
(* steps, the load and check, and the commit (SpecConcurrent).             *)
(*                                                                         *)
(* Strings that the code takes apart (emails, the age field) are sequences *)
(* of one-character strings; all other strings are TLA+ strings.  A Python *)
(* None / an absent JSON key is the empty sequence <<>>, a present value v *)
(* is <<v>>.                                                               *)
(***************************************************************************)
EXTENDS Integers, Sequences, FiniteSets, TLC

VARIABLES users, otps, flights, bookings, feedback, baggage, sessions, response

vars == <<users, otps, flights, bookings, feedback, baggage, sessions, response>>

-----------------------------------------------------------------------------
(* Bounds of the model *)

MaxUsers == 2
MaxOtps == 2
MaxFlights == 2
MaxBookings == 2
MaxFeedback == 1
MaxBaggage == 1
MaxRows == 2
MaxRequests == 2
MaxPricedSeats == 7

-----------------------------------------------------------------------------
(* Python values *)

None == <<>>
Some(v) == <<v>>

UpperChars == <<"A","B","C","D","E","F","G","H","I","J","K","L","M",
                "N","O","P","Q","R","S","T","U","V","W","X","Y","Z">>
LowerChars == <<"a","b","c","d","e","f","g","h","i","j","k","l","m",
                "n","o","p","q","r","s","t","u","v","w","x","y","z">>

\* str.lower() on one character
LowerChar(c) ==
    IF \E i \in DOMAIN UpperChars : UpperChars[i] = c
    THEN LowerChars[CHOOSE i \in DOMAIN UpperChars : UpperChars[i] = c]
    ELSE c

\* str.lower()
Lower(s) == [i \in DOMAIN s |-> LowerChar(s[i])]

\* str.endswith(suffix)
EndsWith(s, suffix) ==
    /\ Len(s) >= Len(suffix)
    /\ SubSeq(s, Len(s) - Len(suffix) + 1, Len(s)) = suffix

Digits == <<"0","1","2","3","4","5","6","7","8","9">>
IsDigit(c) == \E i \in DOMAIN Digits : Digits[i] = c
DigitValue(c) == (CHOOSE i \in DOMAIN Digits : Digits[i] = c) - 1

IsSign(c) == c = "-" \/ c = "+"
Unsigned(s) == IF Len(s) > 0 /\ IsSign(s[1]) THEN Tail(s) ELSE s

\* whether int(s) returns: an optional sign, then one or more decimal digits
\* (surrounding blanks and digit-group underscores are not among the inputs);
\* on anything else int(s) raises ValueError
IsIntLiteral(s) ==
    /\ Len(Unsigned(s)) > 0
    /\ \A i \in DOMAIN Unsigned(s) : IsDigit(Unsigned(s)[i])

RECURSIVE ParseDigits(_)
ParseDigits(s) ==
    IF Len(s) = 0 THEN 0
    ELSE 10 * ParseDigits(SubSeq(s, 1, Len(s) - 1)) + DigitValue(s[Len(s)])

\* int(s) for a string s with IsIntLiteral(s)
ParseInt(s) ==
    IF Len(s) > 0 /\ s[1] = "-" THEN 0 - ParseDigits(Unsigned(s))
    ELSE ParseDigits(Unsigned(s))

\* a JSON field of a request body: absent, null, a string, or an array
\* (on an array int() raises TypeError, which no handler catches)
Absent == [t |-> "absent", v |-> <<>>]
Null == [t |-> "null", v |-> <<>>]
Str(chars) == [t |-> "str", v |-> chars]
Array == [t |-> "array", v |-> <<>>]

\* werkzeug generate_password_hash / check_password_hash: the hash is opaque
\* and only ever compared through check_password_hash
generate_password_hash(password) == <<"hash", password>>
check_password_hash(hash, password) == hash = <<"hash", password>>

-----------------------------------------------------------------------------
(* Configuration *)

OWNER_ADMIN_EMAIL == <<"a","d","m","i","n","@","m","a","i","l",".","c","o","m">>

BASE_PRICE_PER_SEAT == 5000

\* the codes of airports.json
valid_codes == {"DEL", "BOM", "DXB", "LHR", "JFK"}

StudentDiscountReason == "Student .edu discount (20%)"

-----------------------------------------------------------------------------
(* Pricing *)

IsStudentEmailCaseSensitive(email) == EndsWith(email, <<".","e","d","u">>)

\* user.email.lower().endswith(".edu")
IsStudentEmail(email) == EndsWith(Lower(email), <<".","e","d","u">>)

\* int(base * 0.8): 0.8 is the double 0.8 * (1 + 2^-54), so for a base below
\* 2^53 the product rounds to the double nearest 0.8 * base, whose integer
\* truncation is floor(base * 8 / 10)
DiscountedPrice(base) == (base * 8) \div 10

calculate_price(email, num_seats) ==
    LET base == BASE_PRICE_PER_SEAT * num_seats
    IN  IF IsStudentEmail(email)
        THEN [base |-> base, final |-> DiscountedPrice(base),
              reason |-> Some(StudentDiscountReason)]
        ELSE [base |-> base, final |-> base, reason |-> None]

-----------------------------------------------------------------------------
(* Tables.  users, otps, bookings, feedback and baggage are never deleted  *)
(* from, so the row with primary key i is the i-th element; flights can be *)
(* deleted, so the table is a function from the ids in use.                *)

\* the booking requests that can be in flight at once, and one at rest
Requests == 1 .. MaxRequests
Idle == [pc |-> "idle", user_id |-> 0, flight_id |-> 0, num_seats |-> 0,
         available_seats |-> 0]

Init ==
    /\ users = <<>>
    /\ otps = <<>>
    /\ flights = <<>>
    /\ bookings = <<>>
    /\ feedback = <<>>
    /\ baggage = <<>>
    /\ sessions = [r \in Requests |-> Idle]
    /\ response = [op |-> "home", status |-> 200, error |-> "", req |-> None,
                   body |-> None]

\* the last request served and its answer
RespondWith(op, status, error, req, body) ==
    response' = [op |-> op, status |-> status, error |-> error, req |-> req,
                 body |-> body]

Respond(op, status, error, req) == RespondWith(op, status, error, req, None)

\* User.query.filter_by(email=email).first() is not None
EmailExists(us, email) == \E i \in DOMAIN us : us[i].email = email

\* the role register() gives
RegisterRole(email) ==
    IF Lower(email) = Lower(OWNER_ADMIN_EMAIL) THEN "admin" ELSE "passenger"

-----------------------------------------------------------------------------
(* OTP *)

\* POST /api/request-otp; code is the random.randint draw, zero-padded
request_otp(phone, code) ==
    LET req == [phone |-> phone]
    IN  IF phone = ""
        THEN /\ Respond("request_otp", 400, "phone is required", req)
             /\ UNCHANGED <<users, otps, flights, bookings, feedback, baggage, sessions>>
        ELSE /\ Len(otps) < MaxOtps
             /\ otps' = Append(otps, [phone |-> phone, code |-> code, is_used |-> FALSE])
             /\ Respond("request_otp", 200, "", [phone |-> phone, otp |-> code])
             /\ UNCHANGED <<users, flights, bookings, feedback, baggage, sessions>>

MatchingOtpsUsedToo(os, phone, code) ==
    {i \in DOMAIN os : os[i].phone = phone /\ os[i].code = code}

\* the rows OtpCode.query.filter_by(phone, code, is_used=False) selects
MatchingOtps(os, phone, code) ==
    {i \in DOMAIN os : os[i].phone = phone /\ os[i].code = code /\ ~os[i].is_used}

\* .order_by(OtpCode.created_at.desc()).first(): the most recently created one
\* (rows are stored in creation order)
NewestOtp(os, phone, code) ==
    CHOOSE i \in MatchingOtps(os, phone, code) :
        \A j \in MatchingOtps(os, phone, code) : j <= i

-----------------------------------------------------------------------------
(* Register, login, password, profile *)

\* all([name, email, password, phone, otp_code]); a missing field is "" / <<>>
RegisterFieldsPresent(req) ==
    /\ req.name # ""
    /\ req.email # <<>>
    /\ req.password # ""
    /\ req.phone # ""
    /\ req.otp # ""

RegisterAbandonedCommitted(os, otp) == [os EXCEPT ![otp].is_used = TRUE]

\* the OtpCode table after register() has set otp.is_used = True on the loaded
\* record and then left without db.session.commit(): the change lives in the
\* request's session only, and the session is removed, and with it rolled
\* back, when the request ends
RegisterAbandoned(os, otp) == os

\* POST /api/register
register(req) ==
    LET fail(msg) ==
            /\ Respond("register", 400, msg, req)
            /\ UNCHANGED <<users, otps, flights, bookings, feedback, baggage, sessions>>
        abandon(status, msg) ==
            /\ otps' = RegisterAbandoned(otps, NewestOtp(otps, req.phone, req.otp))
            /\ Respond("register", status, msg, req)
            /\ UNCHANGED <<users, flights, bookings, feedback, baggage, sessions>>
    IN  IF ~RegisterFieldsPresent(req)
        THEN fail("name, email, password, phone and otp are required")
        ELSE IF EmailExists(users, req.email)
        THEN fail("Email already registered")
        ELSE IF MatchingOtps(otps, req.phone, req.otp) = {}
        THEN fail("Invalid or used OTP")
        ELSE IF req.age.t = "str" /\ ~IsIntLiteral(req.age.v)
        THEN abandon(400, "age must be a number")
        ELSE IF req.age.t = "array"
        THEN abandon(500, "Internal Server Error")
        ELSE LET otp == NewestOtp(otps, req.phone, req.otp)
                 age == IF req.age.t = "str" THEN Some(ParseInt(req.age.v)) ELSE None
                 user == [name |-> req.name,
                          email |-> req.email,
                          password_hash |-> generate_password_hash(req.password),
                          role |-> RegisterRole(req.email),
                          age |-> age,
                          phone |-> Some(req.phone),
                          is_verified |-> TRUE]
             IN  /\ Len(users) < MaxUsers
                 /\ otps' = [otps EXCEPT ![otp].is_used = TRUE]
                 /\ users' = Append(users, user)
                 /\ Respond("register", 201, "", req)
                 /\ UNCHANGED <<flights, bookings, feedback, baggage, sessions>>

\* POST /api/login
login(email, password) ==
    LET req == [email |-> email, password |-> password]
        found == {i \in DOMAIN users : users[i].email = email}
    IN  /\ IF email = <<>> \/ password = ""
           THEN Respond("login", 400, "email and password are required", req)
           ELSE IF found = {} \/ \A i \in found : ~check_password_hash(users[i].password_hash, password)
           THEN Respond("login", 401, "Invalid credentials", req)
           ELSE Respond("login", 200, "", req)
        /\ UNCHANGED <<users, otps, flights, bookings, feedback, baggage, sessions>>

\* POST /api/change-password; user_id 0 is a missing (falsy) id
change_password(user_id, old_password, new_password) ==
    LET req == [user_id |-> user_id, old_password |-> old_password,
                new_password |-> new_password]
        fail(status, msg) ==
            /\ Respond("change_password", status, msg, req)
            /\ UNCHANGED <<users, otps, flights, bookings, feedback, baggage, sessions>>
    IN  IF user_id = 0 \/ old_password = "" \/ new_password = ""
        THEN fail(400, "user_id, old_password, and new_password are required")
        ELSE IF user_id \notin DOMAIN users
        THEN fail(404, "User not found")
        ELSE IF ~check_password_hash(users[user_id].password_hash, old_password)
        THEN fail(401, "Incorrect old password")
        ELSE /\ users' = [users EXCEPT
                             ![user_id].password_hash = generate_password_hash(new_password)]
             /\ Respond("change_password", 200, "", req)
             /\ UNCHANGED <<otps, flights, bookings, feedback, baggage, sessions>>

\* PUT /api/users/<id>; data.name is None (key absent) or Some(name)
update_user(user_id, data) ==
    LET req == [user_id |-> user_id, data |-> data]
        named == IF data.name # None
                 THEN [users EXCEPT ![user_id].name = data.name[1]]
                 ELSE users
    IN  IF user_id \notin DOMAIN users
        THEN /\ Respond("update_user", 404, "Not Found", req)
             /\ UNCHANGED <<users, otps, flights, bookings, feedback, baggage, sessions>>
        ELSE IF data.age.t = "str" /\ data.age.v # <<>> /\ ~IsIntLiteral(data.age.v)
        THEN /\ Respond("update_user", 400, "age must be a number", req)
             /\ UNCHANGED <<users, otps, flights, bookings, feedback, baggage, sessions>>
        ELSE IF data.age.t = "array"
        THEN /\ Respond("update_user", 500, "Internal Server Error", req)
             /\ UNCHANGED <<users, otps, flights, bookings, feedback, baggage, sessions>>
        ELSE /\ users' =
                    IF data.age.t = "absent" THEN named
                    ELSE IF data.age.t = "null" \/ data.age.v = <<>>
                    THEN [named EXCEPT ![user_id].age = None]
                    ELSE [named EXCEPT ![user_id].age = Some(ParseInt(data.age.v))]
             /\ Respond("update_user", 200, "", req)
             /\ UNCHANGED <<otps, flights, bookings, feedback, baggage, sessions>>

-----------------------------------------------------------------------------
(* Flights *)

Max(S) == CHOOSE x \in S : \A y \in S : y <= x

\* the INTEGER PRIMARY KEY SQLite gives a new row: one more than the largest
NextId(table) == IF DOMAIN table = {} THEN 1 ELSE Max(DOMAIN table) + 1

\* all(data.get(k) for k in required): "" and 0 are falsy
FlightFieldsPresent(data) ==
    /\ data.code # ""
    /\ data.source # ""
    /\ data.destination # ""
    /\ data.departure_time # ""
    /\ data.arrival_time # ""
    /\ data.total_seats # 0

\* POST /api/flights; data.status is None (key absent) or Some(status)
create_flight(data) ==
    LET fail(msg) ==
            /\ Respond("create_flight", 400, msg, data)
            /\ UNCHANGED <<users, otps, flights, bookings, feedback, baggage, sessions>>
    IN  IF ~FlightFieldsPresent(data)
        THEN fail("Missing required flight fields")
        ELSE IF data.source \notin valid_codes \/ data.destination \notin valid_codes
        THEN fail("Invalid airport code")
        ELSE IF data.source = data.destination
        THEN fail("Source and destination cannot be same")
        ELSE LET id == NextId(flights)
                 flight == [code |-> data.code,
                            source |-> data.source,
                            destination |-> data.destination,
                            departure_time |-> data.departure_time,
                            arrival_time |-> data.arrival_time,
                            total_seats |-> data.total_seats,
                            available_seats |-> data.total_seats,
                            status |-> IF data.status = None THEN "On Time"
                                       ELSE data.status[1]]
             IN  /\ id <= MaxFlights
                 /\ flights' = [i \in DOMAIN flights \cup {id} |->
                                    IF i = id THEN flight ELSE flights[i]]
                 /\ RespondWith("create_flight", 201, "", data, Some(id))
                 /\ UNCHANGED <<users, otps, bookings, feedback, baggage, sessions>>

\* the fields update_flight copies from the request body, in its order
UpdatableFields == <<"code", "source", "destination", "departure_time",
                     "arrival_time", "total_seats", "available_seats", "status">>

\* for field in [...]: if field in data: setattr(flight, field, data[field]);
\* a field of data is None (key absent) or Some(value)
ApplyUpdate(flight, data) ==
    [f \in DOMAIN flight |->
        IF (\E i \in DOMAIN UpdatableFields : UpdatableFields[i] = f) /\ data[f] # None
        THEN data[f][1]
        ELSE flight[f]]

\* PUT /api/flights/<id>
update_flight(flight_id, data) ==
    LET req == [flight_id |-> flight_id, data |-> data]
        fail(status, msg) ==
            /\ Respond("update_flight", status, msg, req)
            /\ UNCHANGED <<users, otps, flights, bookings, feedback, baggage, sessions>>
    IN  IF flight_id \notin DOMAIN flights
        THEN fail(404, "Not Found")
        ELSE IF data.source # None /\ data.source[1] \notin valid_codes
        THEN fail(400, "Invalid source airport")
        ELSE IF data.destination # None /\ data.destination[1] \notin valid_codes
        THEN fail(400, "Invalid destination airport")
        ELSE /\ flights' = [flights EXCEPT ![flight_id] = ApplyUpdate(@, data)]
             /\ Respond("update_flight", 200, "", req)
             /\ UNCHANGED <<users, otps, bookings, feedback, baggage, sessions>>

\* DELETE /api/flights/<id>; bookings of the flight stay
delete_flight(flight_id) ==
    LET req == [flight_id |-> flight_id]
    IN  IF flight_id \notin DOMAIN flights
        THEN /\ Respond("delete_flight", 404, "Not Found", req)
             /\ UNCHANGED <<users, otps, flights, bookings, feedback, baggage, sessions>>
        ELSE /\ flights' = [i \in DOMAIN flights \ {flight_id} |-> flights[i]]
             /\ Respond("delete_flight", 200, "", req)
             /\ UNCHANGED <<users, otps, bookings, feedback, baggage, sessions>>

-----------------------------------------------------------------------------
(* Bookings *)

\* int(data.get("num_seats", 1)); data.num_seats is None (key absent) or Some(n)
NumSeats(data) == IF data.num_seats = None THEN 1 ELSE data.num_seats[1]

SeatsAvailableOffByOne(available_seats, num_seats) ==
    ~(available_seats + 1 < num_seats)

\* not (flight.available_seats < num_seats)
SeatsAvailable(available_seats, num_seats) == ~(available_seats < num_seats)

\* what create_booking answers before it writes: 201 when it goes on to write
BookingCheck(data) ==
    IF data.user_id \notin DOMAIN users \/ data.flight_id \notin DOMAIN flights
    THEN [status |-> 404, error |-> "Not Found"]
    ELSE IF NumSeats(data) <= 0
    THEN [status |-> 400, error |-> "Number of seats must be positive"]
    ELSE IF ~SeatsAvailable(flights[data.flight_id].available_seats, NumSeats(data))
    THEN [status |-> 400, error |-> "Not enough seats available"]
    ELSE [status |-> 201, error |-> ""]

\* Booking(...) as create_booking builds it for a loaded user
NewBooking(user_id, flight_id, num_seats) ==
    LET price == calculate_price(users[user_id].email, num_seats)
    IN  [user_id |-> user_id,
         flight_id |-> flight_id,
         num_seats |-> num_seats,
         status |-> "Confirmed",
         base_price |-> price.base,
         final_price |-> price.final,
         discount_reason |-> price.reason]

DecrementedSeatsByOne(loaded_available_seats, num_seats) ==
    loaded_available_seats - 1

\* flight.available_seats -= num_seats, flushed as
\* UPDATE flight SET available_seats = <the value loaded> - num_seats
DecrementedSeats(loaded_available_seats, num_seats) ==
    loaded_available_seats - num_seats

CommitBookingInDatabase(user_id, flight_id, num_seats, loaded_available_seats) ==
    /\ flights' = [flights EXCEPT ![flight_id].available_seats = @ - num_seats]
    /\ bookings' = Append(bookings, NewBooking(user_id, flight_id, num_seats))

CommitBookingEveryFlight(user_id, flight_id, num_seats, loaded_available_seats) ==
    /\ flights' = [id \in DOMAIN flights |->
                      [flights[id] EXCEPT !.available_seats = @ - num_seats]]
    /\ bookings' = Append(bookings, NewBooking(user_id, flight_id, num_seats))

\* the one transaction of db.session.commit(): the UPDATE of the flight row
\* and the INSERT of the booking
CommitBooking(user_id, flight_id, num_seats, loaded_available_seats) ==
    /\ flights' = [flights EXCEPT ![flight_id].available_seats =
                       DecrementedSeats(loaded_available_seats, num_seats)]
    /\ bookings' = Append(bookings, NewBooking(user_id, flight_id, num_seats))

\* POST /api/bookings, served with no other request in between
create_booking(data) ==
    LET check == BookingCheck(data)
    IN  IF check.status # 201
        THEN /\ Respond("create_booking", check.status, check.error, data)
             /\ UNCHANGED <<users, otps, flights, bookings, feedback, baggage, sessions>>
        ELSE /\ Len(bookings) < MaxBookings
             /\ CommitBooking(data.user_id, data.flight_id, NumSeats(data),
                              flights[data.flight_id].available_seats)
             /\ RespondWith("create_booking", 201, "", data, Some(Len(bookings) + 1))
             /\ UNCHANGED <<users, otps, feedback, baggage, sessions>>

\* POST /api/bookings up to the availability check (lines 443-453), for a
\* request r served while others are: the user and the flight are loaded into
\* r's session and checked
begin_booking(r, data) ==
    LET check == BookingCheck(data)
        in_flight == {q \in Requests : sessions[q].pc # "idle"}
    IN  /\ sessions[r].pc = "idle"
        /\ IF check.status # 201
           THEN /\ Respond("create_booking", check.status, check.error, data)
                /\ UNCHANGED <<users, otps, flights, bookings, feedback, baggage, sessions>>
           ELSE /\ Len(bookings) + Cardinality(in_flight) < MaxBookings
                /\ sessions' = [sessions EXCEPT ![r] =
                       [pc |-> "checked",
                        user_id |-> data.user_id,
                        flight_id |-> data.flight_id,
                        num_seats |-> NumSeats(data),
                        available_seats |-> flights[data.flight_id].available_seats]]
                /\ UNCHANGED <<users, otps, flights, bookings, feedback, baggage, response>>

\* the rest of POST /api/bookings (lines 455-470) for request r; the UPDATE
\* of a flight row deleted meanwhile matches no row and the commit fails
finish_booking(r) ==
    LET s == sessions[r]
        req == [user_id |-> s.user_id, flight_id |-> s.flight_id,
                num_seats |-> Some(s.num_seats)]
    IN  /\ s.pc = "checked"
        /\ sessions' = [sessions EXCEPT ![r] = Idle]
        /\ IF s.flight_id \notin DOMAIN flights
           THEN /\ Respond("create_booking", 500, "StaleDataError", req)
                /\ UNCHANGED <<users, otps, flights, bookings, feedback, baggage>>
           ELSE /\ CommitBooking(s.user_id, s.flight_id, s.num_seats, s.available_seats)
                /\ RespondWith("create_booking", 201, "", req, Some(Len(bookings) + 1))
                /\ UNCHANGED <<users, otps, feedback, baggage>>

-----------------------------------------------------------------------------
(* Feedback and baggage *)

\* POST /api/feedback; the row is committed before fb.to_dict() reads
\* fb.user, which is None for an unknown user_id
create_feedback(data) ==
    /\ Len(feedback) < MaxFeedback
    /\ feedback' = Append(feedback, data)
    /\ IF data.user_id \in DOMAIN users
       THEN Respond("create_feedback", 201, "", data)
       ELSE Respond("create_feedback", 500, "AttributeError", data)
    /\ UNCHANGED <<users, otps, flights, bookings, baggage, sessions>>

\* POST /api/baggage; tag_number is unique
create_baggage(data) ==
    IF \E i \in DOMAIN baggage : baggage[i].tag_number = data.tag_number
    THEN /\ Respond("create_baggage", 500, "IntegrityError", data)
         /\ UNCHANGED <<users, otps, flights, bookings, feedback, baggage, sessions>>
    ELSE /\ Len(baggage) < MaxBaggage
         /\ baggage' = Append(baggage,
                [tag_number |-> data.tag_number,
                 booking_id |-> data.booking_id,
                 status |-> IF data.status = None THEN "Checked-in" ELSE data.status[1],
                 last_location |-> IF data.last_location = None THEN "N/A"
                                   ELSE data.last_location[1]])
         /\ Respond("create_baggage", 201, "", data)
         /\ UNCHANGED <<users, otps, flights, bookings, feedback, sessions>>

-----------------------------------------------------------------------------
(* Admin *)

\* GET /api/admin/summary
admin_summary ==
    LET total_users == Len(users)
        total_passengers == Cardinality({i \in DOMAIN users : users[i].role = "passenger"})
    IN  /\ RespondWith("admin_summary", 200, "", None,
               Some([total_users |-> total_users,
                     total_passengers |-> total_passengers,
                     total_employees |-> total_users - total_passengers,
                     total_flights |-> Cardinality(DOMAIN flights),
                     total_bookings |-> Len(bookings),
                     total_feedback |-> Len(feedback)]))
        /\ UNCHANGED <<users, otps, flights, bookings, feedback, baggage, sessions>>

\* row.get("role", "staff"): the default only when the file has no role column
RowRole(file, row) == IF file.has_role THEN row.role ELSE "staff"

\* row.get("password", "password123")
RowPassword(file, row) == IF file.has_password THEN row.password ELSE "password123"

ImportRowUnflushed(acc, file, row) ==
    IF row.email = <<>> \/ row.name = ""
    THEN acc
    ELSE IF EmailExists(users, row.email)
    THEN [acc EXCEPT !.skipped = @ + 1]
    ELSE [users |-> Append(acc.users,
                      [name |-> row.name,
                       email |-> row.email,
                       password_hash |-> generate_password_hash(RowPassword(file, row)),
                       role |-> RowRole(file, row),
                       age |-> None,
                       phone |-> None,
                       is_verified |-> TRUE]),
          created |-> acc.created + 1,
          skipped |-> acc.skipped]

\* one pass of the loop over the rows: acc is the session's users so far
\* (the query of line 587 flushes the rows added before it) and the counts
ImportRow(acc, file, row) ==
    IF row.email = <<>> \/ row.name = ""
    THEN acc
    ELSE IF EmailExists(acc.users, row.email)
    THEN [acc EXCEPT !.skipped = @ + 1]
    ELSE [users |-> Append(acc.users,
                      [name |-> row.name,
                       email |-> row.email,
                       password_hash |-> generate_password_hash(RowPassword(file, row)),
                       role |-> RowRole(file, row),
                       age |-> None,
                       phone |-> None,
                       is_verified |-> TRUE]),
          created |-> acc.created + 1,
          skipped |-> acc.skipped]

RECURSIVE ImportRows(_, _, _)
ImportRows(acc, file, k) ==
    IF k > Len(file.rows) THEN acc
    ELSE ImportRows(ImportRow(acc, file, file.rows[k]), file, k + 1)

\* POST /api/admin/import-employees; path is "" when absent, file is None
\* when nothing exists at the path
import_employees(path, file) ==
    LET req == [path |-> path, file |-> file]
        done == ImportRows([users |-> users, created |-> 0, skipped |-> 0], file[1], 1)
    IN  IF path = ""
        THEN /\ Respond("import_employees", 400, "path is required", req)
             /\ UNCHANGED <<users, otps, flights, bookings, feedback, baggage, sessions>>
        ELSE IF file = None
        THEN /\ Respond("import_employees", 400, "File not found", req)
             /\ UNCHANGED <<users, otps, flights, bookings, feedback, baggage, sessions>>
        ELSE /\ Len(done.users) <= MaxUsers
             /\ users' = done.users
             /\ RespondWith("import_employees", 200, "", req,
                    Some([created |-> done.created, skipped_existing |-> done.skipped]))
             /\ UNCHANGED <<otps, flights, bookings, feedback, baggage, sessions>>

-----------------------------------------------------------------------------
(* Request inputs *)

EmailOwnerUpper == <<"A","d","m","i","n","@","m","a","i","l",".","c","o","m">>
EmailStudent == <<"s","@","u",".","E","D","U">>
EmailOther == <<"b","@","e","d","u",".","i","o">>

Emails == {OWNER_ADMIN_EMAIL, EmailOwnerUpper, EmailOther}
Phones == {"555"}
Codes == {"000001", "000002"}

FullRegisterRequests ==
    [name : {"Ann"}, email : Emails, password : {"pw1"}, phone : Phones,
     otp : Codes, age : {Absent, Str(<<"3","0">>), Str(<<"x">>), Array}]

\* well-formed requests, and one with each required field missing
RegisterRequests ==
    LET r == [name |-> "Ann", email |-> EmailOther, password |-> "pw1",
              phone |-> "555", otp |-> "000001", age |-> Absent]
    IN  FullRegisterRequests \cup
        {[r EXCEPT !.name = ""], [r EXCEPT !.email = <<>>],
         [r EXCEPT !.password = ""], [r EXCEPT !.phone = ""], [r EXCEPT !.otp = ""]}

UserIds == 0 .. MaxUsers + 1

ProfileUpdates ==
    {[name |-> Some("Bea"), age |-> Absent],
     [name |-> None, age |-> Null],
     [name |-> None, age |-> Str(<<>>)],
     [name |-> None, age |-> Str(<<"-","7">>)],
     [name |-> Some("Bea"), age |-> Str(<<"x">>)]}

CsvRows ==
    {[name |-> "Ann", email |-> OWNER_ADMIN_EMAIL, password |-> "pw1", role |-> "staff"],
     [name |-> "Ann", email |-> EmailOwnerUpper, password |-> "pw1", role |-> "admin"],
     [name |-> "Ann", email |-> EmailOther, password |-> "pw1", role |-> "admin"],
     [name |-> "Ann", email |-> EmailOther, password |-> "pw1", role |-> "crew"],
     [name |-> "", email |-> EmailOther, password |-> "pw1", role |-> "staff"],
     [name |-> "Ann", email |-> <<>>, password |-> "pw1", role |-> "staff"]}

RECURSIVE SeqsUpTo(_, _)
SeqsUpTo(S, n) ==
    IF n = 0 THEN {<<>>}
    ELSE SeqsUpTo(S, n - 1) \cup
         {Append(q, x) : q \in {p \in SeqsUpTo(S, n - 1) : Len(p) = n - 1}, x \in S}

CsvFiles ==
    [has_role : BOOLEAN, has_password : {TRUE}, rows : SeqsUpTo(CsvRows, MaxRows)]

-----------------------------------------------------------------------------
(* Account creation, from the empty database: the requests that create    *)
(* OTP records and users, and login                                        *)

NextIdentity ==
    \/ \E phone \in Phones \cup {""}, code \in Codes : request_otp(phone, code)
    \/ \E req \in RegisterRequests : register(req)
    \/ \E email \in {EmailOther, <<>>}, password \in {"pw1", "pw2"} : login(email, password)
    \/ \E file \in CsvFiles : import_employees("employees.csv", Some(file))
    \/ import_employees("", None)
    \/ import_employees("nofile.csv", None)

SpecIdentity == Init /\ [][NextIdentity]_vars

-----------------------------------------------------------------------------
(* The requests that create and change users, from the empty database *)

AccountFiles ==
    {[has_role |-> TRUE, has_password |-> TRUE,
      rows |-> <<[name |-> "Ann", email |-> EmailOther, password |-> "pw1",
                  role |-> "admin"]>>],
     [has_role |-> TRUE, has_password |-> TRUE,
      rows |-> <<[name |-> "Ann", email |-> EmailOwnerUpper, password |-> "pw1",
                  role |-> "crew"]>>],
     [has_role |-> FALSE, has_password |-> FALSE,
      rows |-> <<[name |-> "Ann", email |-> EmailOther, password |-> "", role |-> ""]>>]}

NextAccounts ==
    \/ request_otp("555", "000001")
    \/ \E email \in {EmailOwnerUpper, EmailOther}, age \in {Absent, Str(<<"3","0">>)} :
          register([name |-> "Ann", email |-> email, password |-> "pw1",
                    phone |-> "555", otp |-> "000001", age |-> age])
    \/ \E file \in AccountFiles : import_employees("employees.csv", Some(file))
    \/ \E id \in UserIds, old \in {"", "pw1", "password123"}, new \in {"", "pw2"} :
          change_password(id, old, new)
    \/ \E id \in UserIds \ {0}, data \in ProfileUpdates : update_user(id, data)

SpecAccounts == Init /\ [][NextAccounts]_vars

-----------------------------------------------------------------------------
(* Flight inventory and booking ledger, one request at a time: the users   *)
(* are imported, flights are created, updated, deleted and booked          *)

StaffFile ==
    [has_role |-> FALSE, has_password |-> FALSE,
     rows |-> <<[name |-> "Ann", email |-> EmailStudent, password |-> "", role |-> ""],
                [name |-> "Bob", email |-> EmailOther, password |-> "", role |-> ""]>>]

FlightRequest ==
    [code |-> "AI101", source |-> "DEL", destination |-> "BOM",
     departure_time |-> "10:00", arrival_time |-> "12:00", total_seats |-> 2,
     status |-> None]

FlightRequests ==
    {FlightRequest,
     [FlightRequest EXCEPT !.code = ""],
     [FlightRequest EXCEPT !.total_seats = 0],
     [FlightRequest EXCEPT !.source = "XXX"],
     [FlightRequest EXCEPT !.destination = "XXX"],
     [FlightRequest EXCEPT !.destination = "DEL"]}

NoUpdate ==
    [code |-> None, source |-> None, destination |-> None, departure_time |-> None,
     arrival_time |-> None, total_seats |-> None, available_seats |-> None,
     status |-> None]

FlightUpdates ==
    {NoUpdate,
     [NoUpdate EXCEPT !.available_seats = Some(3)],
     [NoUpdate EXCEPT !.destination = Some("DEL")],
     [NoUpdate EXCEPT !.source = Some("XXX")],
     [NoUpdate EXCEPT !.destination = Some("XXX"), !.available_seats = Some(0)]}

FlightIds == 1 .. MaxFlights + 1

BookingRequests ==
    [user_id : 1 .. MaxUsers, flight_id : 1 .. MaxFlights, num_seats : {None, Some(2)}]
    \cup {[user_id |-> MaxUsers + 1, flight_id |-> 1, num_seats |-> None],
          [user_id |-> 1, flight_id |-> MaxFlights + 1, num_seats |-> None],
          [user_id |-> 1, flight_id |-> 1, num_seats |-> Some(0)],
          [user_id |-> 1, flight_id |-> 1, num_seats |-> Some(-1)]}

Next ==
    \/ import_employees("employees.csv", Some(StaffFile))
    \/ \E data \in FlightRequests : create_flight(data)
    \/ \E id \in FlightIds, data \in FlightUpdates : update_flight(id, data)
    \/ \E id \in FlightIds : delete_flight(id)
    \/ \E data \in BookingRequests : create_booking(data)

Spec == Init /\ [][Next]_vars

-----------------------------------------------------------------------------
(* Properties of the flight inventory and the booking ledger (Spec) *)

BookingSucceeded == response'.op = "create_booking" /\ response'.status = 201
BookingFailed == response'.op = "create_booking" /\ response'.status # 201

\* C1: every stored flight has 0 <= available_seats <= total_seats.
\* update_flight copies available_seats and total_seats from the request
\* unchecked, so this does not hold.
C1_SeatsWithinTotal ==
    \A id \in DOMAIN flights :
        /\ 0 <= flights[id].available_seats
        /\ flights[id].available_seats <= flights[id].total_seats

\* C2: a successful createBooking(user, flight, numSeats) is one step that
\* lowers that flight's available_seats by numSeats, changes nothing else of
\* any flight, and adds exactly one booking for that user and flight with
\* num_seats = numSeats, status "Confirmed" and final_price <= base_price;
\* and no other step adds a booking.
C2_BookingAtomic ==
    [][/\ BookingSucceeded =>
            LET req == response'.req
                n == NumSeats(req)
                b == bookings'[Len(bookings')]
            IN  /\ req.flight_id \in DOMAIN flights
                /\ DOMAIN flights' = DOMAIN flights
                /\ \A id \in DOMAIN flights :
                      flights'[id] =
                        IF id = req.flight_id
                        THEN [flights[id] EXCEPT
                                !.available_seats = flights[id].available_seats - n]
                        ELSE flights[id]
                /\ Len(bookings') = Len(bookings) + 1
                /\ SubSeq(bookings', 1, Len(bookings)) = bookings
                /\ b.user_id = req.user_id
                /\ b.flight_id = req.flight_id
                /\ b.num_seats = n
                /\ b.status = "Confirmed"
                /\ b.final_price <= b.base_price
       /\ bookings' # bookings => BookingSucceeded
      ]_vars

\* C2's case: a second booking, of two seats at the student price, has been
\* made
C2_Witness ==
    /\ response.op = "create_booking" /\ response.status = 201
    /\ response.req.num_seats = Some(2)
    /\ Len(bookings) = 2
    /\ bookings[2].final_price < bookings[2].base_price
    /\ Cardinality(DOMAIN flights) = 2

\* C3: a createBooking with numSeats <= 0, with fewer available seats than
\* numSeats, or with an unknown user or flight fails, and a createBooking
\* that fails leaves every table as it was.
C3_FailedBookingNoChange ==
    [][/\ response'.op = "create_booking" =>
            LET req == response'.req
            IN  (\/ req.user_id \notin DOMAIN users
                 \/ req.flight_id \notin DOMAIN flights
                 \/ NumSeats(req) <= 0
                 \/ flights[req.flight_id].available_seats < NumSeats(req))
                <=> response'.status # 201
       /\ BookingFailed =>
            /\ bookings' = bookings
            /\ flights' = flights
            /\ users' = users
      ]_vars

\* C3's case: after a booking was made, a request for more seats than are
\* left was refused
C3_Witness ==
    /\ response.op = "create_booking" /\ response.status = 400
    /\ response.error = "Not enough seats available"
    /\ Len(bookings) = 1
    /\ flights[response.req.flight_id].available_seats = 1

\* email ends with ".edu", whatever the case of its letters
EndsWithEdu(email) ==
    /\ Len(email) >= 4
    /\ email[Len(email) - 3] = "."
    /\ email[Len(email) - 2] \in {"e", "E"}
    /\ email[Len(email) - 1] \in {"d", "D"}
    /\ email[Len(email)] \in {"u", "U"}

\* price is the result for (email, n) that the claim states
PriceAsClaimed(price, email, n) ==
    /\ price.base = 5000 * n
    /\ IF EndsWithEdu(email)
       THEN \* final = floor(5000 * n * 0.8)
            /\ 10 * price.final <= 8 * 5000 * n
            /\ 8 * 5000 * n < 10 * (price.final + 1)
            /\ price.reason = Some("Student .edu discount (20%)")
       ELSE /\ price.final = price.base
            /\ price.reason = None

PricedEmails ==
    {OWNER_ADMIN_EMAIL, EmailStudent, EmailOther, <<"x",".","e","d","u">>,
     <<"e","d","u">>, <<"x",".","E","d","U">>, <<"x",".","e","d","u","x">>}

\* C8: price(user, n) has base = 5000 * n and, when the user's email ends
\* with ".edu" case-insensitively, final = floor(5000 * n * 0.8) with the
\* discount reason, otherwise final = base and no reason; every stored
\* booking carries the price of its user's email and its num_seats.
C8_Price ==
    /\ \A email \in PricedEmails \cup {users[i].email : i \in DOMAIN users} :
          \A n \in 1 .. MaxPricedSeats :
             PriceAsClaimed(calculate_price(email, n), email, n)
    /\ \A i \in DOMAIN bookings :
          PriceAsClaimed([base |-> bookings[i].base_price,
                          final |-> bookings[i].final_price,
                          reason |-> bookings[i].discount_reason],
                         users[bookings[i].user_id].email, bookings[i].num_seats)

\* C8's case: a student and another user have each booked
C8_Witness ==
    /\ Len(bookings) = 2
    /\ bookings[1].final_price = 8000 /\ bookings[1].base_price = 10000
    /\ bookings[2].final_price = 5000 /\ bookings[2].discount_reason = None

\* C10: every stored flight has a source and a destination of the airport
\* directory, and they differ.  update_flight checks each code against the
\* directory but not one against the other, so this does not hold.
C10_ValidRoute ==
    \A id \in DOMAIN flights :
        /\ flights[id].source \in valid_codes
        /\ flights[id].destination \in valid_codes
        /\ flights[id].source # flights[id].destination

-----------------------------------------------------------------------------
(* Every handler of the API, one request at a time, from the empty database *)

StudentRegistration ==
    [name |-> "Ann", email |-> EmailStudent, password |-> "pw1", phone |-> "555",
     otp |-> "000001", age |-> Absent]

FrameFlightUpdates ==
    {[NoUpdate EXCEPT !.available_seats = Some(3)],
     [NoUpdate EXCEPT !.status = Some("Delayed"), !.total_seats = Some(2)],
     [NoUpdate EXCEPT !.source = Some("XXX"), !.available_seats = Some(3)]}

FrameBookingRequests ==
    {[user_id |-> 1, flight_id |-> 1, num_seats |-> None],
     [user_id |-> 1, flight_id |-> 2, num_seats |-> Some(2)],
     [user_id |-> 2, flight_id |-> 2, num_seats |-> None],
     [user_id |-> 1, flight_id |-> 1, num_seats |-> Some(0)]}

FeedbackRequests == {[user_id |-> 1, message |-> "ok", rating |-> 5]}

BaggageRequests ==
    {[tag_number |-> "T1", booking_id |-> None, status |-> None, last_location |-> None]}

NextFrame ==
    \/ request_otp("555", "000001")
    \/ register(StudentRegistration)
    \/ login(EmailStudent, "pw1")
    \/ change_password(1, "pw1", "pw1")
    \/ update_user(1, [name |-> Some("Ann"), age |-> Null])
    \/ import_employees("employees.csv", Some(StaffFile))
    \/ admin_summary
    \/ \E data \in {FlightRequest, [FlightRequest EXCEPT !.source = "XXX"]} :
          create_flight(data)
    \/ \E id \in 1 .. MaxFlights, data \in FrameFlightUpdates : update_flight(id, data)
    \/ \E id \in 1 .. MaxFlights : delete_flight(id)
    \/ \E data \in FrameBookingRequests : create_booking(data)
    \/ \E data \in FeedbackRequests : create_feedback(data)
    \/ \E data \in BaggageRequests : create_baggage(data)

SpecFrame == Init /\ [][NextFrame]_vars

\* available_seats of a flight that exists before and after the step differs
SeatsChanged(id) ==
    /\ id \in DOMAIN flights /\ id \in DOMAIN flights'
    /\ flights'[id].available_seats # flights[id].available_seats

\* C9 as stated: the available_seats of a flight is changed only by a
\* successful createBooking on that flight; every other operation, updateFlight
\* among them, leaves it unchanged.
C9_OnlyBookingChangesSeats ==
    [][\A id \in 1 .. MaxFlights :
          SeatsChanged(id) => BookingSucceeded /\ response'.req.flight_id = id
      ]_vars

\* C9, amended: the available_seats of a flight is changed only by a
\* successful createBooking on that flight or by an updateFlight of that
\* flight whose request carries available_seats; every other operation leaves
\* it unchanged.
C9_SeatsFrame ==
    [][\A id \in 1 .. MaxFlights :
          SeatsChanged(id) =>
             \/ BookingSucceeded /\ response'.req.flight_id = id
             \/ /\ response'.op = "update_flight" /\ response'.status = 200
                /\ response'.req.flight_id = id
                /\ response'.req.data.available_seats # None
      ]_vars

\* C9's case: with two flights and a booking made, an updateFlight carrying
\* available_seats has overwritten the counter of a booked flight
C9_Witness ==
    /\ response.op = "update_flight" /\ response.status = 200
    /\ response.req.data.available_seats = Some(3)
    /\ Cardinality(DOMAIN flights) = 2
    /\ Len(bookings) >= 1
    /\ bookings[1].flight_id = response.req.flight_id
    /\ flights[response.req.flight_id].available_seats = 3
    /\ Len(feedback) = 1 /\ Len(baggage) = 1

-----------------------------------------------------------------------------
(* Properties of account creation (SpecIdentity) *)

RegisterSucceeded == response'.op = "register" /\ response'.status = 201

\* the OTP records issued for (phone, code), used or not
IssuedOtps(phone, code) ==
    {i \in DOMAIN otps : otps[i].phone = phone /\ otps[i].code = code}

\* C5: an OTP record is consumed at most once: a used record stays used; a
\* successful register marks used exactly one record, the newest one that was
\* unused and matches its phone and code; and when the only record issued for
\* a (phone, code) is used, a register with that phone and code fails (with
\* "Invalid or used OTP" when its fields are present and its email is new)
\* and creates no user.
C5_OtpConsumedOnce ==
    [][/\ \A i \in DOMAIN otps :
            /\ i \in DOMAIN otps'
            /\ otps'[i].phone = otps[i].phone /\ otps'[i].code = otps[i].code
            /\ otps[i].is_used => otps'[i].is_used
       /\ RegisterSucceeded =>
            \E i \in IssuedOtps(response'.req.phone, response'.req.otp) :
                /\ ~otps[i].is_used
                /\ \A j \in IssuedOtps(response'.req.phone, response'.req.otp) :
                      j > i => otps[j].is_used
                /\ otps' = [otps EXCEPT ![i].is_used = TRUE]
       /\ response'.op = "register" =>
            LET req == response'.req
                issued == IssuedOtps(req.phone, req.otp)
            IN  (Cardinality(issued) = 1 /\ \A i \in issued : otps[i].is_used) =>
                   /\ response'.status = 400
                   /\ users' = users
                   /\ otps' = otps
                   /\ (RegisterFieldsPresent(req) /\ ~EmailExists(users, req.email))
                        => response'.error = "Invalid or used OTP"
      ]_vars

\* C5's case: one user registered with the only record issued for the code,
\* and a second register with that code and another email was refused
C5_Witness ==
    /\ response.op = "register" /\ response.status = 400
    /\ response.error = "Invalid or used OTP"
    /\ Len(users) = 1
    /\ users[1].email # response.req.email
    /\ Cardinality(IssuedOtps(response.req.phone, response.req.otp)) = 1
    /\ \A i \in IssuedOtps(response.req.phone, response.req.otp) : otps[i].is_used

EmailsUnique == \A i, j \in DOMAIN users : i # j => users[i].email # users[j].email

\* the rows of an import file that have a name and an email
ValidRows(file) == {k \in DOMAIN file.rows : file.rows[k].email # <<>> /\ file.rows[k].name # ""}

\* the valid rows whose email is stored already or comes in an earlier valid row
DuplicateRows(file) ==
    {k \in ValidRows(file) :
        \/ \E i \in DOMAIN users : users[i].email = file.rows[k].email
        \/ \E j \in ValidRows(file) : j < k /\ file.rows[j].email = file.rows[k].email}

\* C6: no two stored users have the same email (compared exactly); a register
\* whose email is stored already fails with "Email already registered" and
\* creates no user; an import counts as skipped exactly the rows whose email
\* is stored already or was created by an earlier row of the same import, and
\* creates one user for each other row.
C6_EmailUnique ==
    [][/\ EmailsUnique'
       /\ (/\ response'.op = "register"
           /\ RegisterFieldsPresent(response'.req)
           /\ EmailExists(users, response'.req.email)) =>
              /\ response'.status = 400
              /\ response'.error = "Email already registered"
              /\ users' = users
       /\ (response'.op = "import_employees" /\ response'.status = 200) =>
            LET file == response'.req.file[1]
                counts == response'.body[1]
                new == {i \in DOMAIN users' : i > Len(users)}
            IN  /\ SubSeq(users', 1, Len(users)) = users
                /\ counts.skipped_existing = Cardinality(DuplicateRows(file))
                /\ counts.created = Cardinality(ValidRows(file) \ DuplicateRows(file))
                /\ Cardinality(new) = counts.created
                /\ \A k \in ValidRows(file) \ DuplicateRows(file) :
                      \E i \in new : users'[i].email = file.rows[k].email
      ]_vars

\* C6's case: an import of two rows with one email into the empty database
\* created one user and skipped the other row
C6_Witness ==
    /\ response.op = "import_employees" /\ response.status = 200
    /\ Len(users) = 1
    /\ response.body = Some([created |-> 1, skipped_existing |-> 1])
    /\ Len(response.req.file[1].rows) = 2
    /\ response.req.file[1].rows[1].email = response.req.file[1].rows[2].email
    /\ response.req.file[1].rows[1].role # response.req.file[1].rows[2].role

\* the age field is one that register() turns into an age: absent, null, or a
\* string int() accepts
AgeParses(age) == age.t \in {"absent", "null"} \/ (age.t = "str" /\ IsIntLiteral(age.v))

\* C11: a register call succeeds exactly when its required fields are present,
\* its email is not stored, an unused OTP record matches its phone and code,
\* and its age parses; a register call that does not succeed, whatever the
\* reason (also an age found unparsable after the matched record was marked
\* used in the session), leaves every table as it was: no user is created and
\* no OTP record becomes used, so the records that matched the phone and code
\* before the call still match after it.
C11_FailedRegisterNoChange ==
    [][response'.op = "register" =>
         LET req == response'.req
         IN  /\ response'.status = 201 <=>
                   /\ RegisterFieldsPresent(req)
                   /\ ~EmailExists(users, req.email)
                   /\ MatchingOtps(otps, req.phone, req.otp) # {}
                   /\ AgeParses(req.age)
             /\ response'.status # 201 =>
                   /\ users' = users
                   /\ otps' = otps
                   /\ MatchingOtps(otps', req.phone, req.otp) =
                         MatchingOtps(otps, req.phone, req.otp)
                   /\ UNCHANGED <<flights, bookings, feedback, baggage>>
      ]_vars

\* C11's case: after one user registered with another record, a register with
\* a new email and a matching unused record was refused for its age, and the
\* record is still unused
C11_Witness ==
    /\ response.op = "register" /\ response.status = 400
    /\ response.error = "age must be a number"
    /\ ~EmailExists(users, response.req.email)
    /\ MatchingOtps(otps, response.req.phone, response.req.otp) # {}
    /\ Len(users) = 1
    /\ \E i \in DOMAIN otps : otps[i].is_used

\* C7: every stored user has a role in {admin, passenger, staff}, and every
\* stored admin has the owner email up to case.  import_employees stores the
\* role column of the file as it is, so this does not hold.
C7_RolesAndOwnerAdmin ==
    \A i \in DOMAIN users :
        /\ users[i].role \in {"admin", "passenger", "staff"}
        /\ users[i].role = "admin" => Lower(users[i].email) = Lower(OWNER_ADMIN_EMAIL)

-----------------------------------------------------------------------------
(* Booking requests served at the same time: each request loads and checks *)
(* in one step and commits in a later one                                  *)

NextConcurrent ==
    \/ import_employees("employees.csv", Some(StaffFile))
    \/ create_flight(FlightRequest)
    \/ \E r \in Requests, data \in FrameBookingRequests : begin_booking(r, data)
    \/ \E r \in Requests : finish_booking(r)

SpecConcurrent == Init /\ [][NextConcurrent]_vars

RECURSIVE SeatsBooked(_, _)
\* the seats of the first k bookings that are on flight id
SeatsBooked(id, k) ==
    IF k = 0 THEN 0
    ELSE SeatsBooked(id, k - 1) +
         (IF bookings[k].flight_id = id THEN bookings[k].num_seats ELSE 0)

Overbooked(id) == SeatsBooked(id, Len(bookings)) > flights[id].total_seats

\* two requests on one flight have both passed the availability check, for
\* more seats together than the flight has, and neither has committed
BothChecked ==
    \E r, q \in Requests :
        /\ r # q
        /\ sessions[r].pc = "checked" /\ sessions[q].pc = "checked"
        /\ sessions[r].flight_id = sessions[q].flight_id
        /\ sessions[r].num_seats + sessions[q].num_seats
             > flights[sessions[r].flight_id].available_seats

\* C4 as stated: when concurrent createBooking requests on a flight have both
\* passed the availability check before either commits, the commits leave the
\* flight's available_seats negative: a flight with more seats booked than it
\* holds has a negative available_seats.
C4_RaceDrivesSeatsNegative ==
    \A id \in DOMAIN flights : Overbooked(id) => flights[id].available_seats < 0

\* C4, amended: concurrent createBooking requests on a flight can both pass
\* the availability check before either commits, and then each commits the
\* available_seats it read minus its own seats, so the later commit
\* overwrites the earlier one and more seats are booked than the flight
\* holds; the available_seats of a flight is never negative, and a request
\* that has passed the check read at least the seats it asks for.
C4_RaceLosesUpdate ==
    /\ \A id \in DOMAIN flights :
          /\ flights[id].available_seats >= 0
          /\ flights[id].available_seats <= flights[id].total_seats
    /\ \A r \in Requests :
          sessions[r].pc = "checked" =>
             /\ sessions[r].num_seats >= 1
             /\ sessions[r].available_seats >= sessions[r].num_seats

\* C4's case: two requests passed the check together and both have committed,
\* so the flight is overbooked
C4_Witness ==
    /\ \A r \in Requests : sessions[r].pc = "idle"
    /\ Len(bookings) = 2
    /\ \E id \in DOMAIN flights :
          /\ Overbooked(id)
          /\ flights[id].available_seats = 0
          /\ SeatsBooked(id, Len(bookings)) = 4

=============================================================================
